---- MODULE Spec2Model ----
(***************************************************************************)
(* A model of src/checkbox_api.py: the CheckboxAPI client.  Every public   *)
(* operation builds one HTTP request, hands it to the HTTP collaborator    *)
(* (requests.Session.request) and normalises the collaborator's outcome    *)
(* into a result dictionary.                                               *)
(*                                                                         *)
(* Python values are modelled as follows.  A dict is a function whose      *)
(* domain is the set of keys present.  An f-string is the tuple of its     *)
(* parts.  A decimal number is the integer number of its thousandths       *)
(* (19.99 is 19990, the integer 1999 is 1999000).  A float is an IEEE-754   *)
(* double, computed exactly on arbitrary-precision naturals.               *)
(***************************************************************************)
EXTENDS Integers, Sequences, FiniteSets, TLC

(***************************************************************************)
(* Arbitrary-precision naturals: little-endian sequences of digits of      *)
(* DigitBits bits each.                                                    *)
(***************************************************************************)
Base == 2 ^ 13

DigitBits == CHOOSE b \in 1..30 : 2 ^ b = Base

Min(a, b) == IF a < b THEN a ELSE b

RECURSIVE BigOf(_)
BigOf(n) == IF n = 0 THEN << >> ELSE <<n % Base>> \o BigOf(n \div Base)

RECURSIVE BigToInt(_)
BigToInt(a) == IF a = << >> THEN 0 ELSE Head(a) + Base * BigToInt(Tail(a))

RECURSIVE BigMulC(_, _, _)
BigMulC(a, k, carry) ==
    IF a = << >> THEN BigOf(carry)
    ELSE LET t == Head(a) * k + carry
         IN  <<t % Base>> \o BigMulC(Tail(a), k, t \div Base)

\* a * k for a small k (k <= Base)
BigMul(a, k) == IF k = 0 THEN << >> ELSE BigMulC(a, k, 0)

RECURSIVE BigStrip(_)
BigStrip(a) ==
    IF a # << >> /\ a[Len(a)] = 0 THEN BigStrip(SubSeq(a, 1, Len(a) - 1)) ELSE a

RECURSIVE BigDivFrom(_, _, _, _)
BigDivFrom(a, k, i, rem) ==
    IF i = 0 THEN [quo |-> << >>, rem |-> rem]
    ELSE LET t    == rem * Base + a[i]
             rest == BigDivFrom(a, k, i - 1, t % k)
         IN  [quo |-> rest.quo \o <<t \div k>>, rem |-> rest.rem]

\* quotient and remainder of a by a small k (k <= Base)
BigDivMod(a, k) ==
    LET r == BigDivFrom(a, k, Len(a), 0)
    IN  [quo |-> BigStrip(r.quo), rem |-> r.rem]

RECURSIVE BigLessFrom(_, _, _)
BigLessFrom(a, b, i) ==
    IF i = 0 THEN FALSE
    ELSE IF a[i] # b[i] THEN a[i] < b[i]
    ELSE BigLessFrom(a, b, i - 1)

BigLess(a, b) ==
    IF Len(a) # Len(b) THEN Len(a) < Len(b) ELSE BigLessFrom(a, b, Len(a))

BigIsOdd(a) == a # << >> /\ a[1] % 2 = 1

RECURSIVE BigInc(_)
BigInc(a) ==
    IF a = << >> THEN <<1>>
    ELSE IF Head(a) + 1 < Base THEN <<Head(a) + 1>> \o Tail(a)
    ELSE <<0>> \o BigInc(Tail(a))

\* a * 2^e, a digit's worth of bits at a time
RECURSIVE BigShiftLeft(_, _)
BigShiftLeft(a, e) ==
    IF e = 0 THEN a
    ELSE BigShiftLeft(BigMul(a, 2 ^ Min(e, DigitBits)), e - Min(e, DigitBits))

\* the number of bits of a
BigBits(a) ==
    IF a = << >> THEN 0
    ELSE DigitBits * (Len(a) - 1)
         + (CHOOSE b \in 1..DigitBits : 2 ^ (b - 1) <= a[Len(a)] /\ a[Len(a)] < 2 ^ b)

\* floor(a / 2^r), and whether a bit was shifted out
RECURSIVE BigShiftRight(_, _, _)
BigShiftRight(a, r, sticky) ==
    IF r = 0 THEN [quo |-> a, sticky |-> sticky]
    ELSE LET d == BigDivMod(a, 2 ^ Min(r, DigitBits))
         IN  BigShiftRight(d.quo, r - Min(r, DigitBits), sticky \/ d.rem # 0)

\* a / 2^r, rounded to the nearest integer, a tie to the even one
BigShiftRound(a, r) ==
    IF r = 0 THEN a
    ELSE LET low  == BigShiftRight(a, r - 1, FALSE)
             d    == BigDivMod(low.quo, 2)
             half == d.rem = 1
         IN  IF half /\ (low.sticky \/ BigIsOdd(d.quo)) THEN BigInc(d.quo) ELSE d.quo

(***************************************************************************)
(* IEEE-754 doubles.  A double is [man, scale]: the value man / 2^scale,   *)
(* man <= 2^MantissaBits.  Every operation rounds to nearest, ties to even.*)
(***************************************************************************)
MantissaBits == 53

MilliPerUnit == 10 ^ 3

\* the least numerator whose quotient by MilliPerUnit has MantissaBits bits
FloatLimit == BigMul(BigShiftLeft(BigOf(1), MantissaBits - 1), MilliPerUnit)

\* the scale that gives m / MilliPerUnit a mantissa of MantissaBits bits
FloatScale(m) ==
    CHOOSE s \in 0..(MantissaBits + 10) :
        /\ ~BigLess(BigShiftLeft(BigOf(m), s), FloatLimit)
        /\ BigLess(BigShiftLeft(BigOf(m), s), BigMul(FloatLimit, 2))

\* float(x) for the decimal x of m thousandths: the double nearest to m / 1000
float(m) ==
    IF m = 0 THEN [man |-> << >>, scale |-> 0]
    ELSE LET s  == FloatScale(m)
             d  == BigDivMod(BigShiftLeft(BigOf(m), s), MilliPerUnit)
             up == 2 * d.rem > MilliPerUnit
                   \/ (2 * d.rem = MilliPerUnit /\ BigIsOdd(d.quo))
         IN  [man |-> IF up THEN BigInc(d.quo) ELSE d.quo, scale |-> s]

\* f * k for a double f and a small natural k: the exact product, rounded
FloatMul(f, k) ==
    LET p == BigMul(f.man, k)
        t == IF BigBits(p) > MantissaBits THEN BigBits(p) - MantissaBits ELSE 0
    IN  [man |-> BigShiftRound(p, t), scale |-> f.scale - t]

\* round(f) of one argument: the nearest integer, a tie to the even one
round(f) ==
    IF f.scale <= 0 THEN BigToInt(BigShiftLeft(f.man, 0 - f.scale))
    ELSE BigToInt(BigShiftRound(f.man, f.scale))

\* int(round(float(x) * 100)): the conversion of the three money fields
ToMinor(m) == round(FloatMul(float(m), 100))

\* the integer k as a decimal number of the model
IntNum(k) == k * MilliPerUnit

(***************************************************************************)
(* Python values.                                                          *)
(***************************************************************************)
None == "<None>"

EmptyDict == [k \in {} |-> None]

\* {**a, **b}
Merge(a, b) == [k \in DOMAIN a \cup DOMAIN b |-> IF k \in DOMAIN b THEN b[k] ELSE a[k]]

\* d.get(k), d.get(k, default)
Get(d, k, default) == IF k \in DOMAIN d THEN d[k] ELSE default

\* an Optional[dict] argument: None, or a dict
NoDict == [none |-> TRUE, val |-> EmptyDict]

Some(d) == [none |-> FALSE, val |-> d]

\* x or {} for an Optional[dict] x
OrEmpty(x) == IF x.none \/ DOMAIN x.val = {} THEN EmptyDict ELSE x.val

\* A JSON value as the json module parses it: an object (dict) or an array
\* (list) holds items, a key (or an index) with its string; a string or a
\* number holds a scalar; null is None.  "invalid" is a body that is no JSON,
\* held as its text.
JObject(items) == [kind |-> "object", items |-> items, scalar |-> ""]

JArray(items) == [kind |-> "array", items |-> items, scalar |-> ""]

JString(text) == [kind |-> "string", items |-> {}, scalar |-> text]

JNumber(digits) == [kind |-> "number", items |-> {}, scalar |-> digits]

JNull == [kind |-> "null", items |-> {}, scalar |-> ""]

NotJson(text) == [kind |-> "invalid", items |-> {}, scalar |-> text]

\* bool(v) for a parsed JSON value
Truthy(v) ==
    CASE v.kind \in {"object", "array"} -> v.items # {}
      [] v.kind = "string" -> v.scalar # ""
      [] v.kind = "number" -> v.scalar # "0"
      [] OTHER -> FALSE

\* what a call gives back: a returned value, or the exception it raises
Return(value) == [exc |-> None, ret |-> value]

Raise(exception) == [exc |-> exception, ret |-> EmptyDict]

(***************************************************************************)
(* CheckboxConfig and the class constants.                                 *)
(***************************************************************************)
timeout_sec == 25

cfg ==
    [check_url      |-> "https://check.checkbox.ua/",
     api_url        |-> "https://api.checkbox.ua/api/",
     api_version    |-> "v1",
     client_name    |-> "Name",
     client_version |-> "v1",
     timeout_sec    |-> timeout_sec]

discount_value == "VALUE"

discount_percent == "PERCENT"

full_payment == "FULL"

prepayment == "PREPAYMENT"

postpaid == "POSTPAID"

\* the session's default headers, as __init__ sets them (the defaults that
\* requests.Session brings itself, such as User-Agent, are left out)
InitHeaders ==
    ("accept" :> "application/json") @@ ("Content-Type" :> "application/json")
    @@ ("X-Client-Name" :> cfg.client_name)
    @@ ("X-Client-Version" :> cfg.client_version)

(***************************************************************************)
(* The result normaliser.                                                  *)
(***************************************************************************)
\* _error(status_code, error, payload): (payload or {}).get raises
\* AttributeError when the truthy payload is no dict
_error(status_code, error, payload) ==
    LET p == IF Truthy(payload) THEN payload ELSE JObject({})
    IN  IF p.kind # "object" THEN Raise("AttributeError")
        ELSE LET found == {i \in p.items : i[1] = "message"}
                 got   == IF found = {} THEN None ELSE (CHOOSE i \in found : TRUE)[2]
                 msg   == IF got = None \/ got = "" THEN error ELSE got
             IN  Return([success           |-> FALSE,
                         status            |-> status_code,
                         error             |-> error,
                         error_description |-> msg,
                         data              |-> p])

\* r.json(), or {"raw": r.text} when the body is no JSON
json_or_raw(r) ==
    IF r.body.kind = "invalid" THEN JObject({<<"raw", r.body.scalar>>}) ELSE r.body

\* _parse(r)
_parse(r) ==
    LET data == json_or_raw(r)
        ok   == 200 <= r.status_code /\ r.status_code < 300
    IN  [success |-> ok, status |-> r.status_code, data |-> data]

\* Response.raise_for_status(): HTTPError for a 4xx or a 5xx status
raises_for_status(r) == 400 <= r.status_code /\ r.status_code < 600

\* endpoint.lstrip('/') on an endpoint held as its segments
RECURSIVE lstrip(_)
lstrip(endpoint) ==
    IF endpoint # << >> /\ Head(endpoint) = "" THEN lstrip(Tail(endpoint)) ELSE endpoint

upper(method) ==
    CASE method \in {"post", "POST"} -> "POST"
      [] method \in {"get", "GET"} -> "GET"

\* the arguments of session.request
build_request(session_headers, method, endpoint, headers, params, body) ==
    [method  |-> upper(method),
     url     |-> <<cfg.api_url, cfg.api_version>> \o lstrip(endpoint),
     headers |-> Merge(session_headers, OrEmpty(headers)),
     params  |-> OrEmpty(params),
     json    |-> OrEmpty(body),
     timeout |-> cfg.timeout_sec]

\* except requests.exceptions.HTTPError
on_http_error(r) ==
    [log    |-> <<"Checkbox HTTP error: %s">>,
     answer |-> _error(r.status_code, "HTTP error", json_or_raw(r))]

\* a handler that reports a transport failure as an HTTP error
on_request_exception_as_http(e) ==
    [log    |-> <<"Checkbox HTTP error: %s">>,
     answer |-> _error(400, "HTTP error", JObject({<<"detail", e.message>>}))]

\* except requests.exceptions.RequestException
on_request_exception(e) ==
    [log    |-> <<"Checkbox network error: %s">>,
     answer |-> _error(400, "Network error", JObject({<<"detail", e.message>>}))]

\* a _request that stores the call's headers in the session
\* (self.session.headers.update(headers))
session_updated(session_headers, headers) == Merge(session_headers, OrEmpty(headers))

\* self.session.headers after _request: the merged headers are a new dict
session_after_request(session_headers, headers) == session_headers

\* which requests one call of _request sends, given the first one
requests_sent(request, outcome) == <<request>>

\* _request(...): outcome is what the HTTP collaborator does with the request,
\* a response or a transport exception
_request(session_headers, method, endpoint, headers, params, body, outcome) ==
    LET request == build_request(session_headers, method, endpoint, headers, params, body)
        handled ==
            IF ~outcome.response THEN on_request_exception(outcome)
            ELSE IF raises_for_status(outcome) THEN on_http_error(outcome)
            ELSE [log |-> << >>, answer |-> Return(_parse(outcome))]
    IN  [sent    |-> requests_sent(request, outcome),
         session |-> session_after_request(session_headers, headers),
         log     |-> handled.log,
         answer  |-> handled.answer]

\* a call that ends before any request
no_request(session_headers, answer) ==
    [sent |-> << >>, session |-> session_headers, log |-> << >>, answer |-> answer]

(***************************************************************************)
(* The operations.  Each gives [sent, session, log, answer].               *)
(***************************************************************************)
\* not x, for an Optional[str] x
falsy(x) == x = None \/ x = ""

bearer(access_token) == <<"Bearer ", access_token>>

\* a validation that looks at the login alone (if not login)
signin_invalid_login_only(login, password) == falsy(login)

\* if not login or not password
signin_invalid(login, password) == falsy(login) \/ falsy(password)

cashier_signin(session_headers, login, password, outcome) ==
    IF signin_invalid(login, password)
    THEN no_request(session_headers,
             _error(400, "Bad request",
                    JObject({<<"detail", "login and password are required">>})))
    ELSE _request(session_headers, "POST", <<"cashier", "signin">>, NoDict, NoDict,
                  Some([login |-> login, password |-> password]), outcome)

open_shift(session_headers, license_key, access_token, uuid4, outcome) ==
    _request(session_headers, "POST", <<"shifts">>,
             Some(("X-License-Key" :> license_key)
                  @@ ("Authorization" :> bearer(access_token))),
             NoDict, Some([id |-> uuid4]), outcome)

status_shift(session_headers, access_token, shift_id, outcome) ==
    _request(session_headers, "GET", <<"shifts", shift_id>>,
             Some("Authorization" :> bearer(access_token)), NoDict, NoDict, outcome)

close_shift(session_headers, license_key, access_token, shift_id, outcome) ==
    _request(session_headers, "POST", <<"shifts", shift_id, "close">>,
             Some(("X-License-Key" :> license_key)
                  @@ ("Authorization" :> bearer(access_token))),
             NoDict, NoDict, outcome)

(***************************************************************************)
(* The receipt builder.                                                    *)
(***************************************************************************)
\* the decimal amounts the inputs are drawn from
Prices == {19990, 10005}

Totals == {19990, 10005}

DiscountAmounts == {1005, 5500, 10000, 10005, 19990}

Amounts == {0} \cup Prices \cup Totals \cup DiscountAmounts

\* ToMinor, computed once for every amount
MinorUnits == [m \in Amounts |-> ToMinor(m)]

\* int(round(float(p.get("product_price", 0)) * 100))
good_price(p) == IntNum(MinorUnits[Get(p, "product_price", 0)])

\* a payment value that is cut, not rounded: int(float(...) * 100), taken on
\* the decimal
payment_value_truncated(payment) == IntNum(Get(payment, "total_amount", 0) \div 10)

\* int(round(float(payment.get("total_amount", 0)) * 100))
payment_value(payment) == IntNum(MinorUnits[Get(payment, "total_amount", 0)])

\* a discount value converted to minor units whatever the type
discount_amount_always_minor(discount) ==
    IntNum(MinorUnits[Get(discount, "discount_amount", 0)])

\* discount_value: minor units for the VALUE type, else the amount as given
discount_amount_value(discount) ==
    IF Get(discount, "discount_type", None) = discount_value
    THEN IntNum(MinorUnits[Get(discount, "discount_amount", 0)])
    ELSE Get(discount, "discount_amount", None)

good_of(p) ==
    [good               |-> [code  |-> <<"order_product_", Get(p, "order_product", None)>>,
                             name  |-> Get(p, "product_name", None),
                             price |-> good_price(p)],
     quantity           |-> IntNum(1000),
     is_return          |-> FALSE,
     is_winnings_payout |-> FALSE]

payment_of(order_id, client, payment) ==
    [type               |-> Get(payment, "payment_type", None),
     value              |-> payment_value(payment),
     label              |-> <<"Order #", order_id>>,
     payment_system     |-> Get(payment, "payment_system", None),
     rrn                |-> Get(payment, "payment_system_invoice_id", None),
     owner_name         |-> Get(client, "full_name", None),
     signature_required |-> FALSE]

\* if discount: receipt["discounts"] = [...]; the entry's fixed name (the
\* Ukrainian word for discount) is written in Latin letters
with_discounts(receipt, discount) ==
    IF discount.none \/ DOMAIN discount.val = {} THEN receipt
    ELSE Merge(receipt,
               "discounts" :> << [type  |-> "DISCOUNT",
                                  mode  |-> Get(discount.val, "discount_type", None),
                                  value |-> discount_amount_value(discount.val),
                                  name  |-> "Znyzhka"] >>)

build_receipt(cashier, order_id, client, products, discount, payment, uuid4) ==
    with_discounts(
        [id           |-> uuid4,
         cashier_name |-> cashier,
         goods        |-> [i \in 1..Len(products) |-> good_of(products[i])],
         delivery     |-> [phone |-> Get(client, "phone", None)],
         payments     |-> <<payment_of(order_id, client, payment)>>,
         rounding     |-> FALSE],
        discount)

\* a POSTPAID body that keeps every key
keeps_goods(receipt) == receipt

\* {k: v for k, v in receipt.items() if k != "goods"}
without_goods(receipt) == [k \in DOMAIN receipt \ {"goods"} |-> receipt[k]]

create_receipt(session_headers, access_token, cashier, order_id, client, products, discount, payment, relation_id, uuid4, outcome) ==
    LET receipt        == build_receipt(cashier, order_id, client, products, discount,
                                        payment, uuid4)
        payment_method == Get(payment, "payment_method", None)
        headers        == Some("Authorization" :> bearer(access_token))
    IN  IF payment_method = prepayment
        THEN _request(session_headers, "POST", <<"prepayment-receipts">>, headers,
                      NoDict, Some(receipt), outcome)
        ELSE IF payment_method = postpaid
        THEN IF falsy(relation_id)
             THEN no_request(session_headers,
                      _error(400, "Bad request",
                             JObject({<<"detail", "relation_id is required for POSTPAID">>})))
             ELSE _request(session_headers, "POST", <<"prepayment-receipts", relation_id>>,
                           headers, NoDict, Some(without_goods(receipt)), outcome)
        ELSE _request(session_headers, "POST", <<"receipts", "sell">>, headers, NoDict,
                      Some(receipt), outcome)

(***************************************************************************)
(* The inputs of the operations and the outcomes of the HTTP collaborator. *)
(***************************************************************************)
MaxProducts == 2

SeqsUpTo(S, n) == UNION {[1..k -> S] : k \in 0..n}

Logins == {None, "", "cashier"}

Passwords == {None, "", "secret"}

Tokens == {"token-a", "token-b"}

LicenseKeys == {"license-a", "license-b"}

ShiftIds == {"shift-1", "shift-2"}

RelationIds == {None, "", "abc"}

Uuids == {"uuid-1", "uuid-2"}

TheCashier == "Olena"

TheOrder == "1001"

TheClient == [phone |-> "+380000000000", full_name |-> "Taras"]

PaymentMethods == {full_payment, prepayment, postpaid}

ProductOf(price) ==
    [order_product |-> "7", product_name |-> "tea", product_price |-> price]

\* a product dict with no product_price key
Unpriced == [order_product |-> "8", product_name |-> "gift"]

PaymentOf(method, total) ==
    [payment_type              |-> "CASHLESS",
     total_amount              |-> total,
     payment_method            |-> method,
     payment_system            |-> "bank",
     payment_system_invoice_id |-> "rrn-1"]

\* a payment dict with no payment_method key
Unrouted(total) == [k \in DOMAIN PaymentOf(None, total) \ {"payment_method"} |-> PaymentOf(None, total)[k]]

DiscountOf(type, amount) == Some([discount_type |-> type, discount_amount |-> amount])

Statuses == {101, 200, 204, 299, 300, 304, 399, 400, 404, 499, 500, 599}

Bodies ==
    { NotJson(""), NotJson("<html>"),
      JObject({}), JObject({<<"message", "denied">>}), JObject({<<"message", "">>}),
      JObject({<<"detail", "x">>}),
      JArray({}), JArray({<<"0", "denied">>}),
      JString("denied"), JNumber("7"), JNull }

Response(status_code, body) ==
    [response |-> TRUE, status_code |-> status_code, body |-> body, message |-> ""]

\* a transport failure: no response, only the exception's message
Failure(message) ==
    [response |-> FALSE, status_code |-> 0, body |-> JNull, message |-> message]

Failures == {Failure("Connection refused"), Failure("Read timed out"), Failure("")}

Outcomes == {Response(st, b) : st \in Statuses, b \in Bodies} \cup Failures

\* the outcomes the receipt builder is run against
FewOutcomes ==
    { Response(200, JObject({<<"detail", "x">>})),
      Response(404, JObject({<<"message", "denied">>})),
      Failure("Connection refused") }

NoOutcome == Failure(None)

(***************************************************************************)
(* The state: the client's session headers, and the latest call: its       *)
(* arguments, what the collaborator did, the requests it sent, what it     *)
(* logged and what it gave back.  sent_before is history: the names of the *)
(* headers that the client's earlier calls have sent.                      *)
(***************************************************************************)
VARIABLES session_headers, pc, call, outcome, sent, log, result, sent_before

vars == <<session_headers, pc, call, outcome, sent, log, result, sent_before>>

NoCall == [op |-> None]

Init ==
    /\ session_headers = InitHeaders
    /\ pc = "idle"
    /\ call = NoCall
    /\ outcome = NoOutcome
    /\ sent = << >>
    /\ log = << >>
    /\ result = Return(EmptyDict)
    /\ sent_before = {}

\* one call, from entry to return or raise
Finish(args, given, done) ==
    \E r \in {done} :
        /\ pc' = "done"
        /\ call' = args
        /\ outcome' = IF r.sent = << >> THEN NoOutcome ELSE given
        /\ session_headers' = r.session
        /\ sent' = r.sent
        /\ log' = r.log
        /\ result' = r.answer
        /\ UNCHANGED sent_before

CallCashierSignin ==
    /\ pc = "idle"
    /\ \E login \in Logins, password \in Passwords, o \in Outcomes :
           Finish([op |-> "cashier_signin", login |-> login, password |-> password], o,
                  cashier_signin(session_headers, login, password, o))

CallOpenShift ==
    /\ pc = "idle"
    /\ \E license_key \in LicenseKeys, access_token \in Tokens, uuid4 \in Uuids, o \in Outcomes :
           Finish([op |-> "open_shift", license_key |-> license_key,
                   access_token |-> access_token, uuid4 |-> uuid4], o,
                  open_shift(session_headers, license_key, access_token, uuid4, o))

CallStatusShift ==
    /\ pc = "idle"
    /\ \E access_token \in Tokens, shift_id \in ShiftIds, o \in Outcomes :
           Finish([op |-> "status_shift", access_token |-> access_token,
                   shift_id |-> shift_id], o,
                  status_shift(session_headers, access_token, shift_id, o))

CallCloseShift ==
    /\ pc = "idle"
    /\ \E license_key \in LicenseKeys, access_token \in Tokens, shift_id \in ShiftIds, o \in Outcomes :
           Finish([op |-> "close_shift", license_key |-> license_key,
                   access_token |-> access_token, shift_id |-> shift_id], o,
                  close_shift(session_headers, license_key, access_token, shift_id, o))

ReceiptCall(access_token, products, discount, payment, relation_id, uuid4, o) ==
    Finish([op |-> "create_receipt", access_token |-> access_token,
            products |-> products, discount |-> discount, payment |-> payment,
            relation_id |-> relation_id, uuid4 |-> uuid4], o,
           create_receipt(session_headers, access_token, TheCashier, TheOrder, TheClient,
                          products, discount, payment, relation_id, uuid4, o))

\* create_receipt against every outcome, on few receipts
CallCreateReceipt ==
    /\ pc = "idle"
    /\ \E access_token \in Tokens,
          products \in SeqsUpTo({ProductOf(19990)}, MaxProducts),
          discount \in {NoDict, DiscountOf(discount_value, 5500)},
          payment \in {PaymentOf(m, 19990) : m \in PaymentMethods} \cup {Unrouted(19990)},
          relation_id \in RelationIds,
          o \in Outcomes :
           ReceiptCall(access_token, products, discount, payment, relation_id, "uuid-1", o)

\* create_receipt on every receipt, against few outcomes
BuildReceipt ==
    /\ pc = "idle"
    /\ \E access_token \in Tokens,
          products \in SeqsUpTo({ProductOf(p) : p \in Prices} \cup {Unpriced}, MaxProducts),
          discount \in {NoDict, Some(EmptyDict)}
                       \cup {DiscountOf(discount_value, a) : a \in DiscountAmounts}
                       \cup {DiscountOf(discount_percent, a) : a \in DiscountAmounts},
          payment \in {PaymentOf(m, t) : m \in PaymentMethods, t \in Totals}
                      \cup {Unrouted(t) : t \in Totals},
          relation_id \in RelationIds,
          uuid4 \in Uuids,
          o \in FewOutcomes :
           ReceiptCall(access_token, products, discount, payment, relation_id, uuid4, o)

\* the caller takes what the call gave back
Returned ==
    /\ pc = "done"
    /\ pc' = "idle"
    /\ call' = NoCall
    /\ outcome' = NoOutcome
    /\ sent' = << >>
    /\ log' = << >>
    /\ result' = Return(EmptyDict)
    /\ sent_before' = sent_before \cup UNION {DOMAIN sent[i].headers : i \in 1..Len(sent)}
    /\ UNCHANGED session_headers

Next ==
    \/ CallCashierSignin
    \/ CallOpenShift
    \/ CallStatusShift
    \/ CallCloseShift
    \/ CallCreateReceipt
    \/ Returned

Spec == Init /\ [][Next]_vars

NextReceipt ==
    \/ BuildReceipt
    \/ Returned

SpecReceipt == Init /\ [][NextReceipt]_vars

(***************************************************************************)
(* What the claims speak of.                                               *)
(***************************************************************************)
Done == pc = "done"

\* the call gave back a Result record
ReturnedResult ==
    /\ result.exc = None
    /\ {"success", "status", "data"} \subseteq DOMAIN result.ret

\* the collaborator answered the call's request with a response
GotResponse == Done /\ sent # << >> /\ outcome.response

\* the collaborator failed on the call's request without a response
GotNoResponse == Done /\ sent # << >> /\ ~outcome.response

Is2xx(status_code) == status_code \in 200..299

Missing(x) == x \in {None, ""}

PaymentMethodOf(c) ==
    IF "payment_method" \in DOMAIN c.payment THEN c.payment.payment_method ELSE None

\* the call is one that pre-flight validation rejects
FailsPreflight ==
    \/ call.op = "cashier_signin" /\ (Missing(call.login) \/ Missing(call.password))
    \/ call.op = "create_receipt" /\ PaymentMethodOf(call) = "POSTPAID"
                                  /\ Missing(call.relation_id)

\* a Result of a failure of the given kind, with data {detail: <some message>}
IsFailureWithDetail(r, kind) ==
    /\ DOMAIN r = {"success", "status", "error", "error_description", "data"}
    /\ r.success = FALSE
    /\ r.status = 400
    /\ r.error = kind
    /\ r.error_description = kind
    /\ r.data.kind = "object"
    /\ Cardinality(r.data.items) = 1
    /\ \A i \in r.data.items : i[1] = "detail"

\* C1: every operation always returns a Result record and never raises, for
\* every outcome of the HTTP collaborator.
C1_AlwaysReturnsResult == Done => ReturnedResult

\* C2: for every response received, the returned Result has the response's
\* status, and success is true exactly for a status in [200, 300).
C2_StatusAndSuccess ==
    GotResponse =>
        /\ ReturnedResult
        /\ result.ret.status = outcome.status_code
        /\ result.ret.success = Is2xx(outcome.status_code)

\* the message field of a body, when the body is an object that has one
MessagesOf(body) ==
    IF body.kind = "object" THEN {i[2] : i \in {j \in body.items : j[1] = "message"}}
    ELSE {}

\* C3: for every response with a non-2xx status, the returned Result has
\* error = "HTTP error", error_description = the body's message field if
\* present, else "HTTP error", and data = the parsed body, or {raw: <text>}
\* for a body that is no JSON; so every Result with success = false carries
\* an error field.
C3_Non2xxIsHttpError ==
    (GotResponse /\ ~Is2xx(outcome.status_code) /\ ReturnedResult) =>
        /\ "error" \in DOMAIN result.ret
        /\ result.ret.error = "HTTP error"
        /\ "error_description" \in DOMAIN result.ret
        /\ result.ret.error_description \in
               (IF MessagesOf(outcome.body) = {} THEN {"HTTP error"}
                ELSE MessagesOf(outcome.body))
        /\ result.ret.data =
               (IF outcome.body.kind = "invalid"
                THEN JObject({<<"raw", outcome.body.scalar>>})
                ELSE outcome.body)

\* C4: a call that fails pre-flight validation issues no request and returns
\* the Bad-request Result: success = false, status 400, error and
\* error_description "Bad request", data {detail: <message>}.
C4_PreflightFailure ==
    (Done /\ FailsPreflight) =>
        /\ sent = << >>
        /\ result.exc = None
        /\ IsFailureWithDetail(result.ret, "Bad request")

C4_Witness ==
    /\ Done
    /\ call.op = "create_receipt"
    /\ PaymentMethodOf(call) = "POSTPAID"
    /\ call.relation_id = None
    /\ call.products # << >>
    /\ result.exc = None

\* C5: when the collaborator fails without a response, the call returns
\* success = false, status 400, error and error_description "Network error",
\* data {detail: <the exception's message>}; never "HTTP error".
C5_NetworkError ==
    GotNoResponse =>
        /\ result.exc = None
        /\ IsFailureWithDetail(result.ret, "Network error")
        /\ result.ret.data.items = {<<"detail", outcome.message>>}
        /\ result.ret.error # "HTTP error"

C5_Witness ==
    /\ GotNoResponse
    /\ call.op = "close_shift"
    /\ outcome.message = "Connection refused"
    /\ result.exc = None

\* C9: a call that passes pre-flight validation issues exactly one request and
\* then returns, whatever the outcome of the request.
C9_SingleShot ==
    (Done /\ ~FailsPreflight) =>
        /\ Len(sent) = 1
        /\ ReturnedResult

\* the request count alone, which holds of every call, returned or raised
ExactlyOneRequest == (Done /\ ~FailsPreflight) => Len(sent) = 1

\* the status and the success flag of every Result that is returned
ReturnedStatusAndSuccess ==
    (GotResponse /\ ReturnedResult) =>
        /\ result.ret.status = outcome.status_code
        /\ result.ret.success = Is2xx(outcome.status_code)

\* the auth headers a request of the call must carry: its own arguments only
OwnAuthHeaders(h) ==
    CASE call.op = "cashier_signin" ->
            /\ "Authorization" \notin DOMAIN h
            /\ "X-License-Key" \notin DOMAIN h
      [] call.op \in {"status_shift", "create_receipt"} ->
            /\ "Authorization" \in DOMAIN h
            /\ h["Authorization"] = <<"Bearer ", call.access_token>>
            /\ "X-License-Key" \notin DOMAIN h
      [] call.op \in {"open_shift", "close_shift"} ->
            /\ "Authorization" \in DOMAIN h
            /\ h["Authorization"] = <<"Bearer ", call.access_token>>
            /\ "X-License-Key" \in DOMAIN h
            /\ h["X-License-Key"] = call.license_key

\* C10: after any sequence of calls the client's default headers are those of
\* construction, and every request carries X-Client-Name, X-Client-Version and
\* the auth headers of its own call only.
C10_HeadersOfOwnCall ==
    /\ session_headers = InitHeaders
    /\ Done =>
          \A i \in 1..Len(sent) :
              /\ {"X-Client-Name", "X-Client-Version"} \subseteq DOMAIN sent[i].headers
              /\ sent[i].headers["X-Client-Name"] = "Name"
              /\ sent[i].headers["X-Client-Version"] = "v1"
              /\ OwnAuthHeaders(sent[i].headers)

\* a sign-in request, sent after earlier calls sent a token and a license key
C10_Witness ==
    /\ Done
    /\ call.op = "cashier_signin"
    /\ Len(sent) = 1
    /\ {"Authorization", "X-License-Key"} \subseteq sent_before

(***************************************************************************)
(* The receipt builder's claims, checked under SpecReceipt.                *)
(***************************************************************************)
ReceiptSent == Done /\ call.op = "create_receipt" /\ sent # << >>

\* the full receipt of the call's arguments
FullReceipt ==
    build_receipt(TheCashier, TheOrder, TheClient, call.products, call.discount,
                  call.payment, call.uuid4)

PathOf(request) == SubSeq(request.url, 3, Len(request.url))

\* C6: payment_method alone chooses the endpoint and the body: PREPAYMENT
\* posts the full receipt to prepayment-receipts, POSTPAID with a relation id
\* R posts the receipt without goods to prepayment-receipts/R, and every
\* other value, or none, posts the full receipt to receipts/sell.
C6_EndpointAndBody ==
    (Done /\ call.op = "create_receipt" /\ ~FailsPreflight) =>
        /\ Len(sent) = 1
        /\ sent[1].method = "POST"
        /\ SubSeq(sent[1].url, 1, 2) = <<"https://api.checkbox.ua/api/", "v1">>
        /\ CASE PaymentMethodOf(call) = "PREPAYMENT" ->
                   /\ PathOf(sent[1]) = <<"prepayment-receipts">>
                   /\ "goods" \in DOMAIN sent[1].json
                   /\ Len(sent[1].json.goods) = Len(call.products)
                   /\ sent[1].json = FullReceipt
             [] PaymentMethodOf(call) = "POSTPAID" ->
                   /\ PathOf(sent[1]) = <<"prepayment-receipts", call.relation_id>>
                   /\ "goods" \notin DOMAIN sent[1].json
                   /\ DOMAIN sent[1].json = DOMAIN FullReceipt \ {"goods"}
                   /\ \A k \in DOMAIN sent[1].json : sent[1].json[k] = FullReceipt[k]
             [] OTHER ->
                   /\ PathOf(sent[1]) = <<"receipts", "sell">>
                   /\ "goods" \in DOMAIN sent[1].json
                   /\ Len(sent[1].json.goods) = Len(call.products)
                   /\ sent[1].json = FullReceipt

C6_Witness ==
    /\ ReceiptSent
    /\ PaymentMethodOf(call) = "POSTPAID"
    /\ call.relation_id = "abc"
    /\ Len(call.products) = 2
    /\ PathOf(sent[1]) = <<"prepayment-receipts", "abc">>

\* x is the integer nearest to 100 times the decimal amount
IsMinorOf(amount, x) ==
    \E v \in {amount \div 10, amount \div 10 + 1} :
        /\ x = IntNum(v)
        /\ amount - 10 * v \in -5..5

\* a discount input was supplied: a dict that holds something
DiscountSupplied == ~call.discount.none /\ DOMAIN call.discount.val # {}

\* C7: the body has a discounts array only when a discount was supplied; it
\* then holds one entry, whose value is the amount in minor units for the
\* type VALUE (5.5 gives 550) and the amount itself for PERCENT (10 gives 10).
C7_Discounts ==
    ReceiptSent =>
        /\ ("discounts" \in DOMAIN sent[1].json) = DiscountSupplied
        /\ DiscountSupplied =>
              /\ Len(sent[1].json.discounts) = 1
              /\ sent[1].json.discounts[1].mode = call.discount.val.discount_type
              /\ call.discount.val.discount_type = "VALUE" =>
                    /\ IsMinorOf(call.discount.val.discount_amount,
                                 sent[1].json.discounts[1].value)
                    /\ call.discount.val.discount_amount = 5500 =>
                          sent[1].json.discounts[1].value = IntNum(550)
              /\ call.discount.val.discount_type = "PERCENT" =>
                    /\ sent[1].json.discounts[1].value = call.discount.val.discount_amount
                    /\ call.discount.val.discount_amount = 10000 =>
                          sent[1].json.discounts[1].value = IntNum(10)

C7_Witness ==
    /\ ReceiptSent
    /\ call.discount = DiscountOf("PERCENT", 10000)
    /\ sent[1].json.discounts[1].value = IntNum(10)

\* the money fields of the request: each decimal input with the field's value
MoneyFields ==
    LET body == sent[1].json
    IN  (IF "goods" \in DOMAIN body
         THEN {<<IF "product_price" \in DOMAIN call.products[i]
                 THEN call.products[i].product_price ELSE 0,
                 body.goods[i].good.price>> : i \in 1..Len(body.goods)}
         ELSE {})
        \cup {<<call.payment.total_amount, body.payments[1].value>>}
        \cup (IF DiscountSupplied /\ call.discount.val.discount_type = "VALUE"
              THEN {<<call.discount.val.discount_amount, body.discounts[1].value>>}
              ELSE {})

\* C8: a good's price, the payment value and a VALUE discount's value are all
\* the integer nearest to amount x 100, the same integer for the same input
\* in every field (19.99 gives 1999), and one fixed integer at a boundary
\* (10.005 gives 1001, 1.005 gives 100).
C8_OneConversion ==
    ReceiptSent =>
        /\ \A f \in MoneyFields :
              /\ IsMinorOf(f[1], f[2])
              /\ f[1] = 19990 => f[2] = IntNum(1999)
              /\ f[1] = 10005 => f[2] = IntNum(1001)
              /\ f[1] = 1005 => f[2] = IntNum(100)
        /\ \A f, g \in MoneyFields : f[1] = g[1] => f[2] = g[2]

C8_Witness ==
    /\ ReceiptSent
    /\ Cardinality(MoneyFields) = 1
    /\ "goods" \in DOMAIN sent[1].json
    /\ call.products # << >>
    /\ call.discount = DiscountOf("VALUE", 10005)
    /\ call.payment.total_amount = 10005

====
